---- MODULE Spec2Model ----
(***************************************************************************)
(* A model of chorogrid's Colorbin (src/chorogrid/Chorogrid.py): the       *)
(* quantity-to-colour binning object, its constructor, its mutable         *)
(* attributes, recalc() and calc_complements(), and of Chorogrid's         *)
(* set_legend() and add_svg().                                             *)
(*                                                                         *)
(* Numbers.  Python floats are modelled as exact rationals <<n, d>> in     *)
(* lowest terms with d > 0; NaN is <<0, 0>>.  Within the bounds below      *)
(* every comparison, int() truncation and round() the code performs has    *)
(* the same outcome in IEEE double arithmetic as in exact arithmetic; the  *)
(* model says nothing about round-off beyond that (sums that differ in     *)
(* the last bit, overflow to inf).                                         *)
(*                                                                         *)
(* np.isnan is numpy's NaN test; the module is modelled as run with `np`   *)
(* bound to numpy.                                                         *)
(***************************************************************************)
EXTENDS Integers, Sequences, FiniteSets, TLC

\* ------------------------------------------------------------------ bounds
\* longest quantity list handed to the constructor in Spec
MaxLen == 2
\* longest palette
MaxP == 3

\* longest quantity list handed to the constructor in SpecBuild, over NaN and
\* the integers 0..MaxLen
BuildLen == MaxLen + 1

\* the most add_svg calls made on one Chorogrid
MaxCalls == 3

\* ---------------------------------------------------------------- numbers
RECURSIVE Gcd(_, _)
Gcd(a, b) == IF b = 0 THEN a ELSE Gcd(b, a % b)

Abs(a) == IF a < 0 THEN -a ELSE a

\* the rational n/d (d # 0) in lowest terms with a positive denominator
Rat(n, d) ==
    LET s == IF d < 0 THEN -1 ELSE 1
        g == Gcd(Abs(n), Abs(d))
    IN  <<(s * n) \div g, (s * d) \div g>>

\* the integer n as a number
Num(n) == <<n, 1>>
NaN == <<0, 0>>

RAdd(x, y) == Rat(x[1] * y[2] + y[1] * x[2], x[2] * y[2])
RSub(x, y) == Rat(x[1] * y[2] - y[1] * x[2], x[2] * y[2])
RMul(x, y) == Rat(x[1] * y[1], x[2] * y[2])
RDiv(x, y) == Rat(x[1] * y[2], x[2] * y[1])
RLe(x, y) == x[1] * y[2] <= y[1] * x[2]
RLt(x, y) == x[1] * y[2] < y[1] * x[2]
RGe(x, y) == RLe(y, x)

\* floor of a rational (\div rounds toward minus infinity)
RFloor(x) == x[1] \div x[2]

\* Python's None, and a present optional value
None == <<>>
Some(v) == <<v>>

\* --------------------------------------------------------------- builtins
\* np.isnan(x)
isnan(x) == x[2] = 0

\* [x for x in s if not np.isnan(x)]
RECURSIVE not_nan(_)
not_nan(s) ==
    IF s = <<>> THEN <<>>
    ELSE IF isnan(Head(s)) THEN not_nan(Tail(s))
         ELSE <<Head(s)>> \o not_nan(Tail(s))

\* min(s), max(s) of a non-empty list
RECURSIVE min(_)
min(s) ==
    IF Len(s) = 1 THEN s[1]
    ELSE LET m == min(Tail(s)) IN IF RLe(s[1], m) THEN s[1] ELSE m

RECURSIVE max(_)
max(s) ==
    IF Len(s) = 1 THEN s[1]
    ELSE LET m == max(Tail(s)) IN IF RGe(s[1], m) THEN s[1] ELSE m

\* insert that keeps the list descending
RECURSIVE insert_descending(_, _)
insert_descending(x, s) ==
    IF s = <<>> THEN <<x>>
    ELSE IF RLt(Head(s), x) THEN <<x>> \o s
         ELSE <<Head(s)>> \o insert_descending(x, Tail(s))

\* list.sort(): ascending, by insertion
RECURSIVE insert(_, _)
insert(x, s) ==
    IF s = <<>> THEN <<x>>
    ELSE IF RLt(x, Head(s)) THEN <<x>> \o s
         ELSE <<Head(s)>> \o insert(x, Tail(s))

\* a sort that leaves the list as given
sort_omitted(s) == s

RECURSIVE sort(_)
sort(s) == IF s = <<>> THEN <<>> ELSE insert(Head(s), sort(Tail(s)))

\* int(x) of a non-negative float: truncation
int(x) == RFloor(x)

RECURSIVE Pow10(_)
Pow10(d) == IF d = 0 THEN 1 ELSE 10 * Pow10(d - 1)

\* rounding that cuts the digits after the d-th off
round_truncating(x, d) == Rat(RFloor(RMul(x, Num(Pow10(d)))), Pow10(d))

\* round(x, d) for d >= 0: the nearest multiple of 10^-d, a tie going to the
\* even one
round(x, d) ==
    LET y == RMul(x, Num(Pow10(d)))
        f == RFloor(y)
        twice == RSub(RMul(y, Num(2)), Num(2 * f))   \* 2 * (y - f), in [0, 2)
        up == \/ RLt(Num(1), twice)
              \/ twice = Num(1) /\ f % 2 = 1
    IN  Rat(IF up THEN f + 1 ELSE f, Pow10(d))

\* str(x): the text of a number (one text per value)
str(x) == <<"str", x>>

\* '{}-{}'.format(n1, n2)
format(n1, n2) == <<str(n1), "-", str(n2)>>

\* ----------------------------------------------------------------- inputs
BLACK == <<"#", "0", "0", "0", "0", "0", "0">>
WHITE == <<"#", "f", "f", "f", "f", "f", "f">>
ColorList == <<BLACK, WHITE>>

\* the palette of P colours: '#000000', '#ffffff', '#000000', ...
Palette(P) == [i \in 1..P |-> ColorList[((i - 1) % Len(ColorList)) + 1]]
Palettes == {Palette(P) : P \in 1..MaxP}

\* the quantities of Spec and of SpecBuild
QtyVals == {Num(0), Num(1), Num(2), NaN}
BuildVals == {Num(v) : v \in 0..MaxLen} \cup {NaN}

\* every list over S of length 0..n
SeqsUpTo(S, n) == UNION {[1..k -> S] : k \in 0..n}

\* decimals: None or a number of decimal places
DecimalsVals == {None, Some(0), Some(1)}

\* quantities=[1,2,3,4,5,6,7,8,9,10]
OneToTen == [i \in 1..10 |-> Num(i)]

\* quantities whose proportional fenceposts for two colours are [0, 5, 10]
ZeroFiveTen == <<Num(0), Num(5), Num(10)>>

\* quantities with a NaN between two numbers in descending order
WithGap == <<Num(2), NaN, Num(0)>>

\* values assigned to bin_min, bin_mid, bin_max by a caller
BinVals == {Num(1)}

\* colour strings calc_complements is called on: well-formed ones, and ones
\* that are not '#RRGGBB'
GREEN == <<"#", "0", "0", "F", "F", "0", "0">>
SHORT == <<"#", "f", "f", "f">>
FIVE == <<"#", "f", "f", "f", "f", "f">>
LONG9 == <<"#", "f", "f", "f", "f", "f", "f", "0", "0">>
NOHASH == <<"x", "0", "0", "0", "0", "0", "0">>
NONHEX == <<"#", "g", "g", "0", "0", "0", "0">>
SampleColors == {BLACK, WHITE, GREEN, SHORT, FIVE, LONG9, NOHASH, NONHEX}
SamplePalettes == UNION {[1..k -> SampleColors] : k \in 1..2}

\* the quantities of SpecComplements
ComplementQtyVals == {Num(0), Num(2)}

\* lists a caller assigns to fenceposts for P colours: 1, 1, ..., 1 and
\* 0, 1, ..., P
CallerPosts(n) == {[k \in 1..(n + 1) |-> Num(1)], [k \in 1..(n + 1) |-> Num(k - 1)]}

\* the arguments of calc_complements: cutoff, and (color_below, color_above)
Cutoffs == {Num(0), Rat(1, 2), Num(1)}
ComplementPairs == {<<WHITE, BLACK>>, <<BLACK, WHITE>>}

\* the arguments of set_legend: colours, label texts, and the title (None,
\* '' or a text, a text being its characters)
LegendColors == SeqsUpTo({BLACK, WHITE}, MaxP)
LegendLabels == SeqsUpTo({"lo", "hi"}, MaxP + 1)
Titles == {None, Some(<<>>), Some(<<"T">>)}

\* the arguments of add_svg: the svg text, and a list written out in the call
SvgTexts == {"<circle/>"}
LiteralOffsets == {<<1, 2>>}

\* draw_map's margin_left and margin_top: the defaults, and the
\* spacing_dict override {'margin_left': 0, 'margin_top': 0}
margin_left == 10
margin_top == 20
Margins == {<<margin_left, margin_top>>, <<0, 0>>}

\* ------------------------------------------------------------------ state
VARIABLES
    pc,               \* "new": arguments chosen, __init__ not yet run;
                      \* "ready": constructed; "raised": __init__ raised
    args,             \* the arguments of Colorbin(...)
    quantities, colors_in, proportional,
    bin_min, bin_max, bin_mid, decimals,
    fenceposts, labels, fencepostlabels,
    colors_out, bin_counts, complements,
    exc,              \* the exception the last call raised, "" if it returned
    legend_params, legend_height,     \* attributes of a Chorogrid
    additional_svg, additional_offset,
    default_offset,   \* the list object that is add_svg's default offset
    caller_offset     \* a list object the caller keeps and passes as offset

vars == <<pc, args, quantities, colors_in, proportional, bin_min, bin_max,
          bin_mid, decimals, fenceposts, labels, fencepostlabels, colors_out,
          bin_counts, complements, exc, legend_params, legend_height,
          additional_svg, additional_offset, default_offset, caller_offset>>

\* the legend attributes of the Chorogrid object
legend == <<legend_params, legend_height>>

\* what add_svg reads and writes: two attributes of the Chorogrid object and
\* the two list objects passed as offset
svg == <<additional_svg, additional_offset, default_offset, caller_offset>>

\* the Chorogrid object and the lists around it
chorogrid == <<legend, svg>>

params == <<proportional, bin_min, bin_max, bin_mid, decimals>>
derived == <<fenceposts, labels, fencepostlabels, colors_out, bin_counts>>

\* an attribute no statement has assigned yet
Unset == <<>>

\* -------------------------------------------------------- Colorbin methods
\* the proportional branch with len(colors_in)/2 taken as integer division
proportional_posts_floordiv(P, lo, mid, hi) ==
    LET step_1 == RMul(RDiv(RSub(mid, lo), Num(P)), Num(2))
        step_2 == RMul(RDiv(RSub(hi, mid), Num(P)), Num(2))
    IN  [k \in 1..(P + 1) |->
            LET i == k - 1 IN
            IF i < P \div 2 THEN RAdd(lo, RMul(Num(i), step_1))
            ELSE IF i = P \div 2 THEN mid
            ELSE RSub(hi, RMul(Num(P - i), step_2))]

\* the proportional branch with the steps not doubled
proportional_posts_halfstep(P, lo, mid, hi) ==
    LET step_1 == RDiv(RSub(mid, lo), Num(P))
        step_2 == RDiv(RSub(hi, mid), Num(P))
    IN  [k \in 1..(P + 1) |->
            LET i == k - 1 IN
            IF 2 * i < P THEN RAdd(lo, RMul(Num(i), step_1))
            ELSE IF 2 * i = P THEN mid
            ELSE RSub(hi, RMul(Num(P - i), step_2))]

\* _calc_fenceposts, proportional branch: the P+1 posts from bin_min, bin_mid
\* and bin_max
proportional_posts(P, lo, mid, hi) ==
    LET step_1 == RMul(RDiv(RSub(mid, lo), Num(P)), Num(2))
        step_2 == RMul(RDiv(RSub(hi, mid), Num(P)), Num(2))
    IN  [k \in 1..(P + 1) |->
            LET i == k - 1 IN
            IF 2 * i < P THEN RAdd(lo, RMul(Num(i), step_1))
            ELSE IF 2 * i = P THEN mid
            ELSE RSub(hi, RMul(Num(P - i), step_2))]

\* the index with step taken as integer division
quantile_index_floordiv(i, n, P) == i * (n \div P)

\* _calc_fenceposts, the other branch: posts taken from the sorted quantities
quantile_index(i, n, P) == int(RMul(Num(i), RDiv(Num(n), Num(P))))

\* the quantile posts without the closing append of quant_sorted[-1]
quantile_posts_no_last(P, qs) ==
    LET quant_sorted == sort(qs)
        n == Len(quant_sorted)
    IN  [k \in 1..P |-> quant_sorted[quantile_index(k - 1, n, P) + 1]]

quantile_posts(P, qs) ==
    LET quant_sorted == sort(qs)
        n == Len(quant_sorted)
    IN  [k \in 1..(P + 1) |->
            IF k <= P THEN quant_sorted[quantile_index(k - 1, n, P) + 1]
            ELSE quant_sorted[n]]

\* the rounding that ends _calc_fenceposts
round_posts(fp, dec) ==
    IF dec # None THEN [k \in 1..Len(fp) |-> round(fp[k], dec[1])] ELSE fp

\* the value _calc_fenceposts() assigns to self.fenceposts, from the
\* attributes it reads
_calc_fenceposts(qs, pal, prop, lo, mid, hi, dec) ==
    round_posts(IF prop THEN proportional_posts(Len(pal), lo, mid, hi)
                ELSE quantile_posts(Len(pal), qs),
                dec)

\* _calc_labels(): the values assigned to self.labels and self.fencepostlabels
\* (n2 is the loop's last n2: the last fencepost)
_calc_labels_labels(fp) ==
    [k \in 1..(Len(fp) - 1) |-> format(fp[k], fp[k + 1])]

\* fencepostlabels without the append of str(n2) that follows the loop
_calc_labels_fencepostlabels_no_last(fp) ==
    [k \in 1..(Len(fp) - 1) |-> str(fp[k])]

_calc_labels_fencepostlabels(fp) ==
    [k \in 1..Len(fp) |-> str(fp[k])]

\* the inner loop comparing with > in place of >=
RECURSIVE bin_scan_strict(_, _, _, _, _)
bin_scan_strict(qty, fp, i, P, bin_) ==
    IF i >= P THEN bin_
    ELSE bin_scan_strict(qty, fp, i + 1, P,
                         IF RLt(fp[i + 1], qty) THEN i ELSE bin_)

\* the inner loop leaving at the first post the quantity reaches
RECURSIVE bin_scan_first(_, _, _, _, _)
bin_scan_first(qty, fp, i, P, bin_) ==
    IF i >= P THEN bin_
    ELSE IF RGe(qty, fp[i + 1]) THEN i
    ELSE bin_scan_first(qty, fp, i + 1, P, bin_)

\* the inner loop of _calc_colors: i runs over range(1, len(colors_in)) and
\* bin_ is overwritten whenever qty >= fenceposts[i]  (fp is 1-based: fp[i+1])
RECURSIVE bin_scan(_, _, _, _, _)
bin_scan(qty, fp, i, P, bin_) ==
    IF i >= P THEN bin_
    ELSE bin_scan(qty, fp, i + 1, P, IF RGe(qty, fp[i + 1]) THEN i ELSE bin_)

bin_of(qty, fp, P) == bin_scan(qty, fp, 1, P, 0)

\* the outer loop running over the sorted quantities
RECURSIVE _calc_colors_sorted(_, _, _, _)
_calc_colors_sorted(qs, pal, fp, k) ==
    IF k = 0 THEN <<<<>>, [b \in 1..Len(pal) |-> 0]>>
    ELSE LET before == _calc_colors_sorted(qs, pal, fp, k - 1)
             bin_ == bin_of(sort(qs)[k], fp, Len(pal))
         IN  << Append(before[1], pal[bin_ + 1]),
                [before[2] EXCEPT ![bin_ + 1] = @ + 1] >>

\* the outer loop of _calc_colors over the first k quantities: <<colors_out,
\* bin_counts>> (bin_counts is 1-based: bin_counts[b + 1] counts bin b)
RECURSIVE _calc_colors(_, _, _, _)
_calc_colors(qs, pal, fp, k) ==
    IF k = 0 THEN <<<<>>, [b \in 1..Len(pal) |-> 0]>>
    ELSE LET before == _calc_colors(qs, pal, fp, k - 1)
             bin_ == bin_of(qs[k], fp, Len(pal))
         IN  << Append(before[1], pal[bin_ + 1]),
                [before[2] EXCEPT ![bin_ + 1] = @ + 1] >>

\* recalc that adds to the bin_counts already there
recalc_effect_accumulate(fps, qs, pal, prop, lo, mid, hi, dec, fp0) ==
    LET fp == IF fps THEN _calc_fenceposts(qs, pal, prop, lo, mid, hi, dec)
              ELSE fp0
        cc == _calc_colors(qs, pal, fp, Len(qs))
    IN  /\ fenceposts' = fp
        /\ labels' = _calc_labels_labels(fp)
        /\ fencepostlabels' = _calc_labels_fencepostlabels(fp)
        /\ colors_out' = cc[1]
        /\ bin_counts' = IF bin_counts = Unset THEN cc[2]
                         ELSE [b \in 1..Len(pal) |-> bin_counts[b] + cc[2][b]]

\* recalc that recomputes the fenceposts whatever the flag says
recalc_effect_ignoring_flag(fps, qs, pal, prop, lo, mid, hi, dec, fp0) ==
    LET fp == _calc_fenceposts(qs, pal, prop, lo, mid, hi, dec)
        cc == _calc_colors(qs, pal, fp, Len(qs))
    IN  /\ fenceposts' = fp
        /\ labels' = _calc_labels_labels(fp)
        /\ fencepostlabels' = _calc_labels_fencepostlabels(fp)
        /\ colors_out' = cc[1]
        /\ bin_counts' = cc[2]

\* recalc(fenceposts) on an object with quantities qs, palette pal, parameters
\* (prop, lo, mid, hi, dec) and current fenceposts fp0
recalc_effect(fps, qs, pal, prop, lo, mid, hi, dec, fp0) ==
    LET fp == IF fps THEN _calc_fenceposts(qs, pal, prop, lo, mid, hi, dec)
              ELSE fp0
        cc == _calc_colors(qs, pal, fp, Len(qs))
    IN  /\ fenceposts' = fp
        /\ labels' = _calc_labels_labels(fp)
        /\ fencepostlabels' = _calc_labels_fencepostlabels(fp)
        /\ colors_out' = cc[1]
        /\ bin_counts' = cc[2]

\* s[a:b] for 0 <= a <= b
Slice(s, a, b) ==
    LET lo == IF a < Len(s) THEN a ELSE Len(s)
        hi == IF b < Len(s) THEN b ELSE Len(s)
    IN  SubSeq(s, lo + 1, hi)

\* int(s, 16) of a string of digits, letters and '#': the digits of base 16
HexDigits == <<"0", "1", "2", "3", "4", "5", "6", "7", "8", "9",
               "a", "b", "c", "d", "e", "f">>
UpperHexDigits == <<"A", "B", "C", "D", "E", "F">>

IsHexChar(c) ==
    \/ \E i \in DOMAIN HexDigits : HexDigits[i] = c
    \/ \E i \in DOMAIN UpperHexDigits : UpperHexDigits[i] = c

HexVal(c) ==
    IF \E i \in DOMAIN HexDigits : HexDigits[i] = c
    THEN (CHOOSE i \in DOMAIN HexDigits : HexDigits[i] = c) - 1
    ELSE (CHOOSE i \in DOMAIN UpperHexDigits : UpperHexDigits[i] = c) + 9

\* int(s, 16) raises ValueError on '' and on a character that is no digit
int16_raises(s) == s = <<>> \/ \E k \in DOMAIN s : ~IsHexChar(s[k])

RECURSIVE int16(_)
int16(s) ==
    IF Len(s) = 1 THEN HexVal(s[1])
    ELSE 16 * int16(SubSeq(s, 1, Len(s) - 1)) + HexVal(s[Len(s)])

\* the slices taken from the colour itself, not from color[1:]
channels_with_hash(color) ==
    [j \in 1..3 |-> Slice(color, 2 * (j - 1), 2 * (j - 1) + 2)]

\* color[1:][i:i + 6 // 3] for i in range(0, 6, 2)
channels(color) ==
    [j \in 1..3 |->
        Slice(Slice(color, 1, Len(color)), 2 * (j - 1), 2 * (j - 1) + 2)]

\* the tuple(int(..., 16) ...) of calc_complements raises
parse_raises(color) == \E j \in 1..3 : int16_raises(channels(color)[j])

\* (0.299 * r + 0.587 * g + 0.114 * b) / 256
grey(color) ==
    LET r == int16(channels(color)[1])
        g == int16(channels(color)[2])
        b == int16(channels(color)[3])
    IN  Rat(299 * r + 587 * g + 114 * b, 256000)

\* a choice that takes color_below at the cutoff too
complement_inclusive(color, cutoff, color_below, color_above) ==
    IF RLe(grey(color), cutoff) THEN color_below ELSE color_above

\* the complement calc_complements appends for one colour
complement(color, cutoff, color_below, color_above) ==
    IF RLt(grey(color), cutoff) THEN color_below ELSE color_above

\* ------------------------------------------------------- Chorogrid methods
\* s[::-1]
Reverse(s) == [k \in 1..Len(s) |-> s[Len(s) + 1 - k]]

\* the defaults of set_legend's keyword parameters
height == 100
gutter == 2
stroke_width == Rat(1, 2)
label_x_offset == 2
label_y_offset == 3
stroke_color == "#303030"

\* int(font_dict['font-size'].replace('px', ''))
font_size == 12

\* self._dict2style(font_dict)
font_style ==
    <<"font-style:normal", "font-weight:normal", "font-size:12px",
      "line-height:125%", "text-anchor:left", "font-family:sans-serif",
      "letter-spacing:0px", "word-spacing:0px", "fill-opacity:1",
      "stroke:none", "stroke-width:1px", "stroke-linecap:butt",
      "stroke-linejoin:miter", "stroke-opacity:1">>

\* the labels after the reversal and the two-label expansion
legend_labels(colors, lbls) ==
    LET reversed == Reverse(lbls)
        num_boxes == Len(colors)
    IN  IF Len(reversed) = 2 /\ Len(colors) > 2
        THEN <<reversed[1]>> \o [i \in 1..(num_boxes - 1) |-> ""]
             \o <<reversed[2]>>
        ELSE reversed

\* the condition of the assert statement
labels_fit(lbls, colors) == Len(lbls) - Len(colors) <= 1

\* offset after offset[0] += self.additional_offset[0] and
\* offset[1] += self.additional_offset[1]
offset_added(offset, by) == <<offset[1] + by[1], offset[2] + by[2]>>

\* "translate({} {})".format(offset[0], offset[1])
translate_text(offset) == <<"translate(", str(offset[1]), " ", str(offset[2]), ")">>

\* "<g transform=\"{}\">".format(translate_text) + text + "</g>"
svg_group(text, offset) == <<"<g transform=\"", translate_text(offset), "\">", text, "</g>">>

\* ---------------------------------------------------------------- actions
\* a constructor that takes 0 for the least and greatest of no quantities
\* and goes on
__init___defaulting ==
    /\ pc = "new"
    /\ LET qs == not_nan(args.quantities)
           lo == IF qs = <<>> THEN Num(0) ELSE min(qs)
           hi == IF qs = <<>> THEN Num(0) ELSE max(qs)
       IN
       /\ quantities' = qs
       /\ colors_in' = args.colors_in
       /\ proportional' = args.proportional
       /\ pc' = "ready"
       /\ bin_min' = lo
       /\ bin_max' = hi
       /\ bin_mid' = RDiv(RAdd(lo, hi), Num(2))
       /\ decimals' = None
       /\ recalc_effect(TRUE, IF qs = <<>> THEN <<Num(0)>> ELSE qs,
                        args.colors_in, args.proportional,
                        bin_min', bin_mid', bin_max', decimals', Unset)
       /\ complements' = None
       /\ exc' = ""
    /\ UNCHANGED <<args, chorogrid>>

\* Colorbin(quantities, colors_in, proportional, decimals)
__init__ ==
    /\ pc = "new"
    /\ LET qs == not_nan(args.quantities) IN
       /\ quantities' = qs
       /\ colors_in' = args.colors_in
       /\ proportional' = args.proportional
       /\ IF qs = <<>>
          THEN \* min() of an empty list raises ValueError
               /\ pc' = "raised"
               /\ exc' = "ValueError"
               /\ UNCHANGED <<bin_min, bin_max, bin_mid, decimals, derived,
                              complements>>
          ELSE /\ pc' = "ready"
               /\ bin_min' = min(qs)
               /\ bin_max' = max(qs)
               /\ bin_mid' = RDiv(RAdd(min(qs), max(qs)), Num(2))
               /\ decimals' = None
               /\ recalc_effect(TRUE, qs, args.colors_in, args.proportional,
                                bin_min', bin_mid', bin_max', decimals', Unset)
               /\ complements' = None
               /\ exc' = ""
    /\ UNCHANGED <<args, chorogrid>>

\* obj.proportional = b
AssignProportional ==
    /\ pc = "ready"
    /\ \E b \in BOOLEAN : proportional' = b
    /\ UNCHANGED <<pc, args, exc, chorogrid, quantities, colors_in, bin_min, bin_max, bin_mid,
                   decimals, derived, complements>>

\* obj.bin_min = v
AssignBinMin ==
    /\ pc = "ready"
    /\ \E v \in BinVals : bin_min' = v
    /\ UNCHANGED <<pc, args, exc, chorogrid, quantities, colors_in, proportional, bin_max,
                   bin_mid, decimals, derived, complements>>

\* obj.bin_mid = v
AssignBinMid ==
    /\ pc = "ready"
    /\ \E v \in BinVals : bin_mid' = v
    /\ UNCHANGED <<pc, args, exc, chorogrid, quantities, colors_in, proportional, bin_min,
                   bin_max, decimals, derived, complements>>

\* obj.bin_max = v
AssignBinMax ==
    /\ pc = "ready"
    /\ \E v \in BinVals : bin_max' = v
    /\ UNCHANGED <<pc, args, exc, chorogrid, quantities, colors_in, proportional, bin_min,
                   bin_mid, decimals, derived, complements>>

\* a set_decimals that recalculates at once
set_decimals_recalculating ==
    /\ pc = "ready"
    /\ \E d \in DecimalsVals :
          /\ decimals' = d
          /\ recalc_effect(TRUE, quantities, colors_in, proportional, bin_min,
                           bin_mid, bin_max, d, fenceposts)
    /\ exc' = ""
    /\ UNCHANGED <<pc, args, quantities, colors_in, proportional, bin_min,
                   bin_max, bin_mid, complements, chorogrid>>

\* obj.set_decimals(d)
set_decimals ==
    /\ pc = "ready"
    /\ \E d \in DecimalsVals : decimals' = d
    /\ exc' = ""
    /\ UNCHANGED <<pc, args, quantities, colors_in, proportional, bin_min,
                   bin_max, bin_mid, derived, complements, chorogrid>>

\* obj.recalc(fenceposts=fps)
recalc ==
    /\ pc = "ready"
    /\ \E fps \in BOOLEAN :
          recalc_effect(fps, quantities, colors_in, proportional, bin_min,
                        bin_mid, bin_max, decimals, fenceposts)
    /\ exc' = ""
    /\ UNCHANGED <<pc, args, quantities, colors_in, params, complements,
                   chorogrid>>

\* obj.fenceposts = posts
AssignFenceposts ==
    /\ pc = "ready"
    /\ \E posts \in CallerPosts(Len(colors_in)) : fenceposts' = posts
    /\ UNCHANGED <<pc, args, quantities, colors_in, params, labels,
                   fencepostlabels, colors_out, bin_counts, complements, exc,
                   chorogrid>>

\* obj.calc_complements(cutoff, color_below, color_above): the loop stops at
\* the first colour whose parse raises, with the complements appended so far
calc_complements(cutoff, color_below, color_above) ==
    /\ pc = "ready"
    /\ LET bad == {k \in DOMAIN colors_out : parse_raises(colors_out[k])}
           n == IF bad = {} THEN Len(colors_out)
                ELSE (CHOOSE k \in bad : \A j \in bad : k <= j) - 1
       IN
       /\ complements' = [k \in 1..n |->
                             complement(colors_out[k], cutoff, color_below,
                                        color_above)]
       /\ exc' = IF bad = {} THEN "" ELSE "ValueError"
    /\ UNCHANGED <<pc, args, quantities, colors_in, params, derived,
                   chorogrid>>

\* chorogrid.set_legend(colors, labels, title), the other parameters at
\* their defaults (width="square")
set_legend(colors, lbls, title) ==
    LET colors_r == Reverse(colors)
        labels_r == legend_labels(colors_r, lbls)
        titled == title # None /\ Len(title[1]) > 0
        height_n == Len(labels_r) + (IF titled THEN 1 ELSE 0)
    IN
    /\ legend_height' = Num(height)
    /\ IF height_n = 0
       THEN \* (height - gutter) / height_n
            /\ exc' = "ZeroDivisionError"
            /\ UNCHANGED legend_params
       ELSE LET box_height == RSub(RDiv(Num(height - gutter), Num(height_n)),
                                   Num(gutter))
                y_offset == IF titled
                            THEN RAdd(Num(font_size),
                                      RMul(Num(gutter), Rat(3, 4)))
                            ELSE Num(0)
            IN
            IF ~labels_fit(labels_r, colors_r)
            THEN /\ exc' = "AssertionError"
                 /\ UNCHANGED legend_params
            ELSE /\ exc' = ""
                 /\ legend_params' = Some(
                       [colors |-> colors_r,
                        stroke_width |-> stroke_width,
                        stroke_color |-> stroke_color,
                        y_offset |-> y_offset,
                        box_height |-> box_height,
                        gutter |-> Num(gutter),
                        width |-> box_height,
                        font_style |-> font_style,
                        label_x_offset |-> Num(label_x_offset),
                        label_y_offset |-> Num(label_y_offset),
                        labels |-> labels_r,
                        title |-> title])
    /\ UNCHANGED <<pc, args, quantities, colors_in, params, derived,
                   complements, svg>>

\* chorogrid.draw_map(spacing_dict={margins}), as far as add_svg can see it:
\* self.additional_offset = [margin_left, margin_top]
draw_map(margins) ==
    /\ additional_offset' = margins
    /\ UNCHANGED <<pc, args, quantities, colors_in, params, derived,
                   complements, exc, legend, additional_svg, default_offset,
                   caller_offset>>

\* chorogrid.add_svg(text): offset is the default list object, which the
\* two += statements change in place
add_svg_default(text) ==
    /\ Len(additional_svg) < MaxCalls
    /\ default_offset' = offset_added(default_offset, additional_offset)
    /\ additional_svg' = Append(additional_svg,
                                svg_group(text, default_offset'))
    /\ UNCHANGED <<pc, args, quantities, colors_in, params, derived,
                   complements, exc, legend, additional_offset,
                   caller_offset>>

\* chorogrid.add_svg(text, mine) with a list the caller keeps
add_svg_kept(text) ==
    /\ Len(additional_svg) < MaxCalls
    /\ caller_offset' = offset_added(caller_offset, additional_offset)
    /\ additional_svg' = Append(additional_svg,
                                svg_group(text, caller_offset'))
    /\ UNCHANGED <<pc, args, quantities, colors_in, params, derived,
                   complements, exc, legend, additional_offset,
                   default_offset>>

\* chorogrid.add_svg(text, [x, y]) with a list written out in the call
add_svg_literal(text, offset) ==
    /\ Len(additional_svg) < MaxCalls
    /\ additional_svg' = Append(additional_svg,
                                svg_group(text, offset_added(offset,
                                                     additional_offset)))
    /\ UNCHANGED <<pc, args, quantities, colors_in, params, derived,
                   complements, exc, legend, additional_offset,
                   default_offset, caller_offset>>

\* --------------------------------------------------------- specifications
NewObject ==
    /\ pc = "new"
    /\ quantities = Unset /\ colors_in = Unset /\ proportional = Unset
    /\ bin_min = Unset /\ bin_max = Unset /\ bin_mid = Unset
    /\ decimals = Unset /\ fenceposts = Unset /\ labels = Unset
    /\ fencepostlabels = Unset /\ colors_out = Unset /\ bin_counts = Unset
    /\ complements = Unset
    /\ exc = ""

\* Chorogrid.__init__ has run: no legend and no added svg yet; add_svg's
\* default offset is the [0, 0] of its def statement, and the caller holds a
\* list [5, 7]
NewChorogrid ==
    /\ legend_params = None /\ legend_height = Unset
    /\ additional_svg = <<>>
    /\ additional_offset = <<0, 0>>
    /\ default_offset = <<0, 0>>
    /\ caller_offset = <<5, 7>>

\* an object's life: construction with the default decimals, then attribute
\* assignments, set_decimals and recalc in any order
Init ==
    /\ args \in [quantities : SeqsUpTo(QtyVals, MaxLen) \cup {ZeroFiveTen, WithGap},
                 colors_in : Palettes,
                 proportional : BOOLEAN, decimals : {None}]
    /\ NewObject
    /\ NewChorogrid

Next ==
    \/ __init__
    \/ AssignProportional
    \/ AssignBinMin
    \/ AssignBinMid
    \/ AssignBinMax
    \/ set_decimals
    \/ recalc

Spec == Init /\ [][Next]_vars

\* a life in which bin_min, bin_mid and bin_max keep their defaults
NextDefaultBins ==
    \/ __init__
    \/ AssignProportional
    \/ set_decimals
    \/ recalc

SpecDefaultBins == Init /\ [][NextDefaultBins]_vars

\* construction alone, over longer quantity lists and every decimals argument
InitBuild ==
    /\ args \in [quantities : SeqsUpTo(BuildVals, BuildLen) \cup {OneToTen},
                 colors_in : Palettes, proportional : BOOLEAN,
                 decimals : DecimalsVals]
    /\ NewObject
    /\ NewChorogrid

NextBuild == __init__

SpecBuild == InitBuild /\ [][NextBuild]_vars

\* construction over well-formed and malformed palettes, then
\* calc_complements any number of times
InitComplements ==
    /\ args \in [quantities : SeqsUpTo(ComplementQtyVals, MaxLen)
                                  \cup {ZeroFiveTen},
                 colors_in : SamplePalettes,
                 proportional : BOOLEAN, decimals : {None}]
    /\ NewObject
    /\ NewChorogrid

CallComplements ==
    \E cutoff \in Cutoffs, pair \in ComplementPairs :
        calc_complements(cutoff, pair[1], pair[2])

NextComplements ==
    \/ __init__
    \/ CallComplements

SpecComplements == InitComplements /\ [][NextComplements]_vars

\* a Chorogrid on which set_legend is called any number of times
InitLegend ==
    /\ args = [quantities |-> <<>>, colors_in |-> Palette(1),
               proportional |-> TRUE, decimals |-> None]
    /\ NewObject
    /\ NewChorogrid

CallSetLegend ==
    \E colors \in LegendColors, lbls \in LegendLabels, title \in Titles :
        set_legend(colors, lbls, title)

NextLegend == CallSetLegend

SpecLegend == InitLegend /\ [][NextLegend]_vars

\* a life in which the caller also assigns fenceposts of their own
InitPosts ==
    /\ args \in [quantities : SeqsUpTo(ComplementQtyVals, MaxLen)
                                  \cup {WithGap},
                 colors_in : Palettes,
                 proportional : BOOLEAN, decimals : {None}]
    /\ NewObject
    /\ NewChorogrid

NextPosts ==
    \/ __init__
    \/ AssignProportional
    \/ set_decimals
    \/ AssignFenceposts
    \/ recalc

SpecPosts == InitPosts /\ [][NextPosts]_vars

\* a Chorogrid on which draw_map and add_svg are called in any order
InitSvg == InitLegend

CallDrawMap == \E margins \in Margins : draw_map(margins)

NextSvg ==
    \/ CallDrawMap
    \/ \E text \in SvgTexts : add_svg_default(text)
    \/ \E text \in SvgTexts : add_svg_kept(text)
    \/ \E text \in SvgTexts, offset \in LiteralOffsets :
          add_svg_literal(text, offset)

SpecSvg == InitSvg /\ [][NextSvg]_vars

\* ----------------------------------------------------------------- claims
P == Len(colors_in)
Ready == pc = "ready"

Range(s) == {s[k] : k \in DOMAIN s}

RECURSIVE SumTo(_, _)
SumTo(s, k) == IF k = 0 THEN 0 ELSE s[k] + SumTo(s, k - 1)
Sum(s) == SumTo(s, Len(s))

\* the number of non-NaN entries of the constructor's quantities argument
NonNaNCount == Cardinality({j \in DOMAIN args.quantities :
                               ~isnan(args.quantities[j])})

\* the k-th non-NaN entry of the constructor's quantities argument
NthNonNaN(k) ==
    LET j == CHOOSE j \in DOMAIN args.quantities :
                 /\ ~isnan(args.quantities[j])
                 /\ Cardinality({h \in 1..j : ~isnan(args.quantities[h])}) = k
    IN  args.quantities[j]

\* the largest i in [1, P-1] with q >= fp[i] (0-based posts), or 0
HighestBin(q, fp) ==
    LET S == {i \in 1..(P - 1) : RGe(q, fp[i + 1])}
    IN  IF S = {} THEN 0 ELSE CHOOSE i \in S : \A h \in S : h <= i

\* m is the least (greatest) entry of the list s
IsMin(m, s) == m \in Range(s) /\ \A x \in Range(s) : RLe(m, x)
IsMax(m, s) == m \in Range(s) /\ \A x \in Range(s) : RLe(x, m)

\* the j-th smallest entry of the list s, repeated entries counted
Ranked(s, j) ==
    CHOOSE x \in Range(s) :
        /\ Cardinality({k \in DOMAIN s : RLt(s[k], x)}) < j
        /\ j <= Cardinality({k \in DOMAIN s : RLe(s[k], x)})

Distinct(s) == \A j, k \in DOMAIN s : j # k => s[j] # s[k]

\* the fenceposts are the ones the current parameters determine
Fresh == fenceposts = _calc_fenceposts(quantities, colors_in, proportional,
                                       bin_min, bin_mid, bin_max, decimals)

\* C1: in every state of a constructed Colorbin, whatever attribute
\* assignments, set_decimals and recalc(True/False) calls came before, there
\* is one fencepost more than there are palette colours.
C1_FencepostCount == Ready => Len(fenceposts) = P + 1

\* a non-proportional object with reassigned bin_min and decimals whose
\* fenceposts were recomputed from them
C1_Witness ==
    /\ Ready /\ P = 3 /\ Len(fenceposts) = 4
    /\ ~proportional /\ args.proportional
    /\ bin_min # args.quantities[1] /\ decimals # None
    /\ Len(quantities) = 2 /\ Fresh

\* C2: as long as bin_min, bin_mid and bin_max keep their defaults, the
\* fenceposts are non-decreasing, in both modes, after construction and after
\* any recalc that follows changes of proportional or decimals.
C2_FencepostsNonDecreasing ==
    Ready => \A i \in 1..P : RLe(fenceposts[i], fenceposts[i + 1])

\* unsorted quantities, mode and decimals changed since construction and
\* fenceposts recomputed from them, not all equal
C2_Witness ==
    /\ Ready /\ Fresh
    /\ proportional # args.proportional /\ decimals # None
    /\ ~proportional
    /\ Len(quantities) = 2 /\ RLt(quantities[2], quantities[1])
    /\ fenceposts[1] # fenceposts[P + 1]

\* C3: after construction the first fencepost is the least quantity and the
\* last fencepost the greatest, in both modes, for every palette size.
C3_EndPosts ==
    Ready => /\ IsMin(fenceposts[1], quantities)
             /\ IsMax(fenceposts[P + 1], quantities)

\* a one-colour palette in proportional mode over quantities that differ
C3_Witness ==
    /\ Ready /\ P = 1 /\ proportional
    /\ Len(quantities) = 3
    /\ fenceposts = <<Num(0), Num(2)>>

\* C4: colors_out has one entry per non-NaN quantity handed to the
\* constructor, in the order given; entry k is the palette colour of the bin
\* of the k-th non-NaN quantity, and is a member of the palette.
C4_ColorsAligned ==
    Ready =>
        /\ Len(colors_out) = NonNaNCount
        /\ \A k \in 1..Len(colors_out) :
              /\ colors_out[k] = colors_in[HighestBin(NthNonNaN(k), fenceposts) + 1]
              /\ colors_out[k] \in Range(colors_in)

\* a NaN between two quantities given in descending order, which land in
\* different bins, after a recalc with changed parameters
C4_Witness ==
    /\ Ready /\ args.quantities = WithGap
    /\ colors_out = <<WHITE, BLACK>>
    /\ decimals # None /\ Fresh

\* C5: bin_counts has one entry per palette colour; entry i is the number of
\* quantities whose bin is i, and the entries add up to the number of non-NaN
\* quantities (each recalc starts the counts from zero).
C5_BinCounts ==
    Ready =>
        /\ Len(bin_counts) = P
        /\ \A i \in 0..(P - 1) :
              bin_counts[i + 1] =
                  Cardinality({k \in DOMAIN quantities :
                                  HighestBin(quantities[k], fenceposts) = i})
        /\ Sum(bin_counts) = NonNaNCount

\* an object recalculated after construction with a reassigned bin_max
C5_Witness ==
    /\ Ready /\ decimals # None /\ Fresh /\ bin_max # args.quantities[1]
    /\ P = 2 /\ bin_counts = <<1, 1>> /\ args.quantities = WithGap

\* C6: for the current fenceposts, the colour computation puts a quantity q
\* in the bin with the largest index i in [1, P-1] such that
\* q >= fenceposts[i], or in bin 0 when there is none; so a quantity equal to
\* an interior fencepost i lands in bin i or higher.
ProbeVals == {Rat(n, 2) : n \in -1..5} \cup Range(ZeroFiveTen)

C6_BinIsHighest ==
    Ready =>
        /\ \A q \in ProbeVals \cup Range(quantities) \cup Range(fenceposts) :
              bin_of(q, fenceposts, P) = HighestBin(q, fenceposts)
        /\ \A i \in 1..(P - 1) : bin_of(fenceposts[i + 1], fenceposts, P) >= i
        /\ \A k \in DOMAIN quantities :
              colors_out[k] = colors_in[HighestBin(quantities[k], fenceposts) + 1]

\* fenceposts [0, 5, 10]: the quantity 5 is in bin 1
C6_Witness ==
    /\ Ready /\ fenceposts = <<Num(0), Num(5), Num(10)>>
    /\ quantities[2] = Num(5)
    /\ bin_of(Num(5), fenceposts, P) = 1
    /\ colors_out[2] = WHITE /\ bin_counts = <<1, 2>>

\* q lies in the interval of bin b: [fp[b], fp[b+1]) for b < P-1, and
\* [fp[P-1], fp[P]] for the last bin (0-based posts)
InBin(q, b, fp) ==
    /\ RLe(fp[b + 1], q)
    /\ IF b < P - 1 THEN RLt(q, fp[b + 2]) ELSE RLe(q, fp[b + 2])

\* C7: after construction every quantity lies in the interval of the bin it
\* was assigned to, half-open except for the last bin, which is closed; it
\* lies in the interval of no other bin.
C7_QuantityInItsBin ==
    Ready =>
        \A k \in DOMAIN quantities :
            /\ InBin(quantities[k], bin_of(quantities[k], fenceposts, P),
                     fenceposts)
            /\ Cardinality({b \in 0..(P - 1) :
                               InBin(quantities[k], b, fenceposts)}) = 1

\* three colours over 0, 1, 2: the quantity 2 is the closed upper end of the
\* last bin
C7_Witness ==
    /\ Ready /\ P = 3 /\ Len(quantities) = 3 /\ Distinct(quantities)
    /\ proportional
    /\ \E k \in DOMAIN quantities :
          /\ quantities[k] = fenceposts[P + 1]
          /\ bin_of(quantities[k], fenceposts, P) = P - 1

\* C8: in non-proportional mode over pairwise distinct quantities, every bin
\* count after construction is floor(len(Q)/P) or floor(len(Q)/P) + 1.
C8_EvenCounts ==
    (Ready /\ ~proportional /\ Distinct(quantities)) =>
        \A b \in 1..P :
            bin_counts[b] \in {Len(quantities) \div P,
                               (Len(quantities) \div P) + 1}

\* ten quantities over three colours: counts 3, 3 and 4
C8_Witness ==
    /\ Ready /\ ~proportional /\ Distinct(quantities)
    /\ Len(quantities) = 10 /\ P = 3
    /\ bin_counts = <<3, 3, 4>>

RecalcDefault ==
    /\ pc = "ready"
    /\ UNCHANGED <<pc, args, quantities, colors_in, params, complements>>
    /\ recalc_effect(TRUE, quantities, colors_in, proportional, bin_min,
                     bin_mid, bin_max, decimals, fenceposts)

\* a step that assigns a binning parameter or calls set_decimals
MutatesParameter ==
    \/ AssignProportional
    \/ AssignBinMin
    \/ AssignBinMid
    \/ AssignBinMax
    \/ set_decimals

\* labels, fencepostlabels, colors_out and bin_counts are the ones the
\* current fenceposts determine
DerivedFromPosts ==
    /\ labels = [k \in 1..P |-> format(fenceposts[k], fenceposts[k + 1])]
    /\ fencepostlabels = [k \in 1..(P + 1) |-> str(fenceposts[k])]
    /\ colors_out = [k \in DOMAIN quantities |->
                        colors_in[HighestBin(quantities[k], fenceposts) + 1]]
    /\ bin_counts = [b \in 1..P |->
                        Cardinality({k \in DOMAIN quantities :
                            HighestBin(quantities[k], fenceposts) = b - 1})]

\* the state a recalc() returns in: every derived field is the one the
\* current parameters determine
AfterRecalc == Ready /\ Fresh /\ DerivedFromPosts

\* C11: a recalc() called in the state an earlier recalc() returned in, with
\* no parameter changed in between, leaves fenceposts, labels,
\* fencepostlabels, colors_out and bin_counts as they are.
C11_RecalcIdempotent ==
    [][(RecalcDefault /\ AfterRecalc) => UNCHANGED derived]_vars

\* the state after a recalc() that followed changes of proportional, bin_mid
\* and decimals: the next recalc() is the second of two in a row
C11_Witness ==
    /\ AfterRecalc
    /\ proportional # args.proportional /\ decimals = Some(1)
    /\ bin_mid = Num(1) /\ bin_min = Num(0) /\ bin_max = Num(2)
    /\ P = 3 /\ bin_counts = <<0, 1, 1>>

\* x has at most d decimal places
HasDecimals(x, d) == Pow10(d) % x[2] = 0

\* C12: a Colorbin constructed with a decimals argument d that is not None
\* has decimals = d, and its fenceposts right after construction are rounded
\* to d decimal places.
C12_DecimalsArgumentApplied ==
    (Ready /\ args.decimals # None) =>
        /\ decimals = args.decimals
        /\ \A k \in DOMAIN fenceposts :
              HasDecimals(fenceposts[k], args.decimals[1])

NonDecreasing(fp) == \A k \in 1..(Len(fp) - 1) : RLe(fp[k], fp[k + 1])

\* r is x rounded to n decimal places: a multiple of 10^-n at most half of
\* 10^-n away from x
IsRounded(r, x, n) ==
    /\ HasDecimals(r, n)
    /\ RLe(RMul(Num(2), RSub(r, x)), Rat(1, Pow10(n)))
    /\ RLe(RMul(Num(2), RSub(x, r)), Rat(1, Pow10(n)))

\* the fenceposts of the current mode before rounding
UnroundedPosts ==
    _calc_fenceposts(quantities, colors_in, proportional, bin_min, bin_mid,
                     bin_max, None)

\* C13: a recalc() on an object whose decimals is n (set by set_decimals)
\* leaves every fencepost equal to the unrounded fencepost of the current
\* mode rounded to n places (3.14159 gives 3.14 for n = 2); labels and
\* fencepostlabels are built from the rounded posts, and posts that were
\* non-decreasing before rounding still are.
C13_RoundedPosts ==
    [][(decimals # None /\ RecalcDefault) =>
          /\ \A k \in 1..(P + 1) :
                IsRounded(fenceposts'[k], UnroundedPosts[k], decimals[1])
          /\ labels' = [k \in 1..P |->
                           format(fenceposts'[k], fenceposts'[k + 1])]
          /\ fencepostlabels' = [k \in 1..(P + 1) |-> str(fenceposts'[k])]
          /\ NonDecreasing(UnroundedPosts) => NonDecreasing(fenceposts')
          /\ round(Rat(314159, 100000), 2) = Rat(314, 100)]_vars

\* posts 0, 1/3, 2/3, 1 rounded to 0 places: two pairs of distinct posts
\* collapse
C13_Witness ==
    /\ AfterRecalc /\ decimals = Some(0)
    /\ UnroundedPosts = <<Num(0), Rat(1, 3), Rat(2, 3), Num(1)>>
    /\ fenceposts = <<Num(0), Num(0), Num(1), Num(1)>>

\* C14: constructing a Colorbin from quantities that are empty or all NaN
\* raises at construction (ValueError, from min() of an empty list); no
\* fenceposts, labels or colours are produced then or later.
C14_EmptyInputRaises ==
    (pc # "new" /\ NonNaNCount = 0) =>
        /\ pc = "raised" /\ exc = "ValueError"
        /\ bin_min = Unset /\ bin_mid = Unset /\ bin_max = Unset
        /\ fenceposts = Unset /\ labels = Unset /\ fencepostlabels = Unset
        /\ colors_out = Unset /\ bin_counts = Unset

\* the constructor has raised on a list of NaNs only
C14_Witness ==
    /\ pc = "raised" /\ exc = "ValueError"
    /\ Len(args.quantities) = 2 /\ NonNaNCount = 0 /\ quantities = <<>>

\* C17: assigning proportional, bin_min, bin_mid or bin_max, or calling
\* set_decimals, changes none of fenceposts, labels, fencepostlabels,
\* colors_out and bin_counts (so the object can be stale); the next recalc()
\* makes them the ones the current parameters determine.
C17_NoAutoRecompute ==
    [][/\ MutatesParameter => UNCHANGED derived
       /\ RecalcDefault =>
             /\ fenceposts' = _calc_fenceposts(quantities, colors_in,
                                  proportional, bin_min, bin_mid, bin_max,
                                  decimals)
             /\ UNCHANGED <<quantities, colors_in, params>>
             /\ DerivedFromPosts']_vars

\* a stale object: decimals and bin_max were changed and the fenceposts are
\* not the ones they determine
C17_Witness ==
    /\ Ready /\ ~Fresh /\ DerivedFromPosts
    /\ decimals = Some(0) /\ bin_max = Num(1) /\ proportional
    /\ fenceposts = <<Num(0), Rat(2, 3), Rat(4, 3), Num(2)>>

\* p lies num/den of the way from a to b: den * (p - a) = num * (b - a)
AtFraction(p, a, b, num, den) ==
    RMul(Num(den), RSub(p, a)) = RMul(Num(num), RSub(b, a))

\* post i of P colours is where the proportional formula puts it
OnFormula(p, i) ==
    IF 2 * i < P THEN AtFraction(p, bin_min, bin_mid, 2 * i, P)
    ELSE IF 2 * i = P THEN p = bin_mid
    ELSE AtFraction(p, bin_max, bin_mid, 2 * (P - i), P)

\* C19: a recalc() in proportional mode, with default or reassigned bin_min,
\* bin_mid and bin_max, leaves P + 1 fenceposts of which post i is
\* bin_min + i*(bin_mid - bin_min)/P*2 for i < P/2, bin_mid for i = P/2 and
\* bin_max - (P - i)*(bin_max - bin_mid)/P*2 for i > P/2; with decimals set
\* each post is that value rounded.
C19_ProportionalFormula ==
    [][(pc = "ready" /\ proportional /\ RecalcDefault) =>
          /\ Len(fenceposts') = P + 1
          /\ \A i \in 0..P :
                IF decimals = None THEN OnFormula(fenceposts'[i + 1], i)
                ELSE \E x \in {UnroundedPosts[i + 1]} :
                        /\ OnFormula(x, i)
                        /\ IsRounded(fenceposts'[i + 1], x, decimals[1])]_vars

\* proportional posts of three colours after bin_min was raised to 1: the
\* first step is 0 and the second 2/3
C19_Witness ==
    /\ AfterRecalc /\ proportional /\ decimals = None
    /\ bin_min = Num(1) /\ bin_mid = Num(1) /\ bin_max = Num(2)
    /\ fenceposts = <<Num(1), Num(1), Rat(4, 3), Num(2)>>

\* a post of the current fenceposts equals bin_mid
SomePostIsMid == \E k \in DOMAIN fenceposts : fenceposts[k] = bin_mid

\* the statement for every non-empty quantity set: in proportional mode with
\* an odd number of colours, no fencepost the current parameters determine
\* equals bin_mid
C20_NoPostOnMid_AnyQuantities ==
    (Ready /\ Fresh /\ proportional /\ P % 2 = 1) => ~SomePostIsMid

\* C20: in proportional mode with an odd number of colours, unrounded
\* fenceposts (decimals None) computed from bin_min # bin_mid and
\* bin_max # bin_mid (for the default bins: min(Q) < max(Q)) contain no post
\* equal to bin_mid.
C20_NoPostOnMid ==
    (/\ Ready /\ Fresh /\ proportional /\ P % 2 = 1
     /\ decimals = None /\ bin_min # bin_mid /\ bin_max # bin_mid)
        => ~SomePostIsMid

\* three colours over 0..2: the posts 2/3 and 4/3 lie on either side of
\* bin_mid = 1
C20_Witness ==
    /\ Ready /\ Fresh /\ proportional /\ P = 3 /\ decimals = None
    /\ bin_min = Num(0) /\ bin_mid = Num(1) /\ bin_max = Num(2)
    /\ fenceposts = <<Num(0), Rat(2, 3), Rat(4, 3), Num(2)>>
    /\ ~SomePostIsMid

\* a 7-character '#RRGGBB' string
IsRRGGBB(c) ==
    /\ Len(c) = 7 /\ c[1] = "#"
    /\ \A k \in 2..7 : IsHexChar(c[k])

\* 1000 times the weighted channel sum of a '#RRGGBB' string
WeightedSum(c) ==
    299 * (16 * HexVal(c[2]) + HexVal(c[3]))
    + 587 * (16 * HexVal(c[4]) + HexVal(c[5]))
    + 114 * (16 * HexVal(c[6]) + HexVal(c[7]))

\* (0.299*R + 0.587*G + 0.114*B)/256 < cutoff, cross-multiplied
Darker(c, cutoff) == WeightedSum(c) * cutoff[2] < 256000 * cutoff[1]

\* C15: a calc_complements(cutoff, color_below, color_above) call on
\* '#RRGGBB' colours leaves one complement per entry of colors_out (as many
\* as there are quantities), color_below where the luminance is below the
\* cutoff and color_above elsewhere; with 0.5, '#ffffff', '#000000' black
\* gets '#ffffff' and white '#000000'; construction leaves complements None.
C15_Complements ==
    [][/\ \A cutoff \in Cutoffs, pair \in ComplementPairs :
            (/\ calc_complements(cutoff, pair[1], pair[2])
             /\ \A k \in DOMAIN colors_out : IsRRGGBB(colors_out[k]))
            => /\ Len(complements') = Len(colors_out)
               /\ Len(complements') = Len(quantities)
               /\ \A k \in DOMAIN colors_out :
                     complements'[k] = IF Darker(colors_out[k], cutoff)
                                       THEN pair[1] ELSE pair[2]
               /\ (cutoff = Rat(1, 2) /\ pair = <<WHITE, BLACK>>) =>
                     \A k \in DOMAIN colors_out :
                        /\ colors_out[k] = BLACK => complements'[k] = WHITE
                        /\ colors_out[k] = WHITE => complements'[k] = BLACK
       /\ (pc = "new" /\ pc' = "ready") => complements' = None]_vars

\* three quantities binned into two colours, after
\* calc_complements(0.5, '#ffffff', '#000000')
C15_Witness ==
    /\ Ready /\ P = 2
    /\ colors_out = <<BLACK, WHITE, WHITE>>
    /\ complements = <<WHITE, BLACK, BLACK>>

\* the call on the current object raised
Raised == exc' # ""

\* the statement for every string that is not '#RRGGBB': a calc_complements
\* call on colors_out holding such a string (too short, too long, not
\* starting with '#', or with a non-hex digit) fails
C16_MalformedRejected ==
    [][(CallComplements /\ \E k \in DOMAIN colors_out :
                              ~IsRRGGBB(colors_out[k]))
          => Raised]_vars

\* characters 2..7 of the string, as far as it has them
Digits(c) == {c[k] : k \in 2..(IF Len(c) < 7 THEN Len(c) ELSE 7)}

\* C16: a calc_complements call fails (with ValueError) when some colour of
\* colors_out has fewer than 6 characters or a letter that is no hex digit
\* among its characters 2..7; it returns when every colour has at least 6
\* characters and hex digits as characters 2..7, whatever the first
\* character and the length (9 characters, no '#', '#' and 5 digits).
C16_UnparsableRejected ==
    [][CallComplements =>
          /\ (\E k \in DOMAIN colors_out :
                 \/ Len(colors_out[k]) < 6
                 \/ \E ch \in Digits(colors_out[k]) : ~IsHexChar(ch))
             => (Raised /\ exc' = "ValueError")
          /\ (\A k \in DOMAIN colors_out :
                 /\ Len(colors_out[k]) >= 6
                 /\ \A ch \in Digits(colors_out[k]) : IsHexChar(ch))
             => (~Raised /\ Len(complements') = Len(colors_out))]_vars

\* a call that failed on the second of two colours, '#gg0000', after the
\* complement of the first was appended
C16_Witness ==
    /\ Ready /\ exc = "ValueError"
    /\ colors_out = <<LONG9, NONHEX>>
    /\ complements = <<BLACK>>

\* the label lengths the docstring and the assertion message allow
AllowedLengths(colors, lbls) ==
    \/ Len(lbls) = Len(colors)
    \/ Len(lbls) = Len(colors) + 1
    \/ Len(lbls) = 2

\* C18: set_legend(colors, labels, ...) sets legend_params only when
\* len(labels) is len(colors), len(colors) + 1 or 2 (two labels for more
\* than two colours becoming the ends of len(colors) + 1 labels with ''
\* between); for every other pair of lengths, fewer labels than colours
\* included, the call fails and legend_params stays as it was.
C18_LabelLengths ==
    [][\A colors \in LegendColors, lbls \in LegendLabels, title \in Titles :
          set_legend(colors, lbls, title) =>
             /\ exc' = "" => AllowedLengths(colors, lbls)
             /\ ~AllowedLengths(colors, lbls) =>
                   (exc' # "" /\ UNCHANGED legend_params)
             /\ (exc' = "" /\ Len(lbls) = 2 /\ Len(colors) > 2) =>
                   /\ Len(legend_params'[1].labels) = Len(colors) + 1
                   /\ legend_params'[1].labels[1] = lbls[2]
                   /\ legend_params'[1].labels[Len(colors) + 1] = lbls[1]
                   /\ \A k \in 2..Len(colors) :
                         legend_params'[1].labels[k] = ""]_vars

\* a step of recalc(fenceposts=False)
RecalcKeeping ==
    /\ pc = "ready"
    /\ UNCHANGED <<pc, args, quantities, colors_in, params, complements>>
    /\ recalc_effect(FALSE, quantities, colors_in, proportional, bin_min,
                     bin_mid, bin_max, decimals, fenceposts)

\* C21: recalc(fenceposts=False) leaves fenceposts as they are, whatever was
\* assigned since they were computed, and makes labels, fencepostlabels,
\* colors_out and bin_counts the ones those fenceposts determine;
\* recalc(fenceposts=True) makes fenceposts the ones the current parameters
\* determine and derives the other four fields from the new fenceposts.
C21_RecalcFlag ==
    [][/\ RecalcKeeping => (UNCHANGED fenceposts /\ DerivedFromPosts')
       /\ RecalcDefault =>
             /\ fenceposts' = _calc_fenceposts(quantities, colors_in,
                                  proportional, bin_min, bin_mid, bin_max,
                                  decimals)
             /\ DerivedFromPosts']_vars

\* after the caller assigned fenceposts [1, 1, 1] to an object over 0 and 2
\* and called recalc(False): the labels are those of the assigned posts,
\* which the parameters do not determine
C21_Witness ==
    /\ Ready /\ ~Fresh /\ DerivedFromPosts
    /\ quantities = <<Num(0), Num(2)>>
    /\ fenceposts = <<Num(1), Num(1), Num(1)>>
    /\ labels = <<format(Num(1), Num(1)), format(Num(1), Num(1))>>

\* a step of recalc, with either value of the flag
RecalcEither == RecalcDefault \/ RecalcKeeping

\* C22: after every recalc on P >= 1 colours labels has P entries and
\* fencepostlabels P + 1; label i is the text of post i, '-' and the text of
\* post i + 1, fencepost label j the text of post j, the posts being the
\* current ones: those recalc() has just rounded when decimals is set.
C22_LabelTexts ==
    [][RecalcEither =>
          /\ P >= 1
          /\ Len(labels') = P
          /\ Len(fencepostlabels') = P + 1
          /\ Len(fenceposts') = P + 1
          /\ \A i \in 1..P :
                labels'[i] = <<str(fenceposts'[i]), "-", str(fenceposts'[i + 1])>>
          /\ \A j \in 1..(P + 1) : fencepostlabels'[j] = str(fenceposts'[j])
          /\ (RecalcDefault /\ decimals # None) =>
                \A j \in 1..(P + 1) :
                   /\ IsRounded(fenceposts'[j], UnroundedPosts[j], decimals[1])
                   /\ fencepostlabels'[j] = str(round(UnroundedPosts[j],
                                                      decimals[1]))]_vars

\* three colours over 0 and 2 after set_decimals(0) and recalc(): the posts
\* 0, 2/3, 4/3, 2 are rounded and the labels are those of 0, 1, 1, 2
C22_Witness ==
    /\ Ready /\ P = 3 /\ decimals = Some(0)
    /\ fenceposts = <<Num(0), Num(1), Num(1), Num(2)>>
    /\ labels = <<format(Num(0), Num(1)), format(Num(1), Num(1)),
                  format(Num(1), Num(2))>>
    /\ fencepostlabels = <<str(Num(0)), str(Num(1)), str(Num(1)), str(Num(2))>>

\* the step appended one group, translated by `passed` plus the current
\* additional_offset, and changed neither list object
AppendedAt(text, passed) ==
    /\ Len(additional_svg') = Len(additional_svg) + 1
    /\ \A k \in DOMAIN additional_svg : additional_svg'[k] = additional_svg[k]
    /\ additional_svg'[Len(additional_svg) + 1] =
          svg_group(text, <<passed[1] + additional_offset[1],
                            passed[2] + additional_offset[2]>>)
    /\ default_offset' = <<0, 0>>
    /\ UNCHANGED caller_offset

\* C23: every add_svg call, however many came before it, appends one group
\* whose translate is the offset passed to it (by default [0, 0]) plus the
\* current additional_offset, and leaves the caller's offset list and the
\* default offset as they were.
C23_CallsIndependent ==
    [][\A text \in SvgTexts :
          /\ add_svg_default(text) => AppendedAt(text, <<0, 0>>)
          /\ add_svg_kept(text) => AppendedAt(text, caller_offset)
          /\ \A offset \in LiteralOffsets :
                add_svg_literal(text, offset) => AppendedAt(text, offset)]_vars
====
